---- MODULE Spec2Model ----
(***************************************************************************)
(* A model of the project analyzer: the cache-backed, concurrency-bounded  *)
(* LLM client (src/utils/llm_handler.py), the chunk/file/layer merges of   *)
(* the business analyzer, the project run of the code analyzer and the     *)
(* dependency graph builder.                                               *)
(*                                                                         *)
(* The module holds several specifications over one set of variables; each *)
(* specification leaves the variables of the other parts at their initial  *)
(* values.                                                                 *)
(***************************************************************************)
EXTENDS Integers, Sequences, FiniteSets, TLC

VARIABLES
    batch_size,   \* LLMConfig.batch_size of the run
    sem_value,    \* asyncio.Semaphore._value of LLMHandler.semaphore
    waiters,      \* asyncio.Semaphore._waiters: the blocked acquirers, FIFO
    woken,        \* the waiters whose future has been resolved by a release
    task,         \* one analyze_chunk invocation per task id
    cache,        \* cache_dir: cache key -> file
    calls,        \* call counter of the external service, per prompt
    m_pc,         \* position of a merge: "off"; "input", "merged" (file to layer);
                  \* "chunks", "file" (chunk to file); "processes", "process"
                  \* (one process into another); "gathering", "gathered"
                  \* (a gather and its merge); "content", "dispatched"
                  \* (a content into chunks and calls)
    m_in,         \* the partial results handed to the merge
    m_out,        \* what the merge returned or raised
    r_kind,       \* what runs: "code" (analyze_project), "layer" (_analyze_layer)
                  \* or "file" (BusinessAnalyzer._analyze_file)
    r_files,      \* the paths of the project and the _analyze_file task of each
    r_run,        \* the run itself: its position and what it has merged
    g_in,         \* the components, entities and services given to analyze_dependencies
    g_graph,      \* the graph analyze_dependencies returned, <<>> while there is none
    g_run,        \* the position of the caller of analyze_dependencies
    x_pc,         \* position of the business cross-layer pass: "off", "start", "done", "raised"
    x_in,         \* the entity and process maps before the pass, and the answer it applies
    x_out,        \* BusinessAnalyzer.entities and .processes
    b_run         \* analyze_business_logic: its position, its layer tasks, the
                  \* entities and processes merged so far, the requests made

hvars == <<batch_size, sem_value, waiters, woken, task, cache, calls>>
mvars == <<m_pc, m_in, m_out>>
rvars == <<r_kind, r_files, r_run>>
gvars == <<g_in, g_graph, g_run>>
xvars == <<x_pc, x_in, x_out>>

vars == <<hvars, mvars, rvars, gvars, xvars, b_run>>

\* The variables each part of the model leaves alone.
NotH == <<mvars, rvars, gvars, xvars, b_run>>
NotM == <<hvars, rvars, gvars, xvars, b_run>>
NotR == <<hvars, mvars, gvars, xvars, b_run>>
NotG == <<hvars, mvars, rvars, xvars, b_run>>
NotX == <<hvars, mvars, rvars, gvars, b_run>>
NotB == <<hvars, mvars, rvars, gvars, xvars>>

(***************************************************************************)
(* Bounds of the model.                                                    *)
(***************************************************************************)
MaxTasks == 3
MaxPrompts == 2
MaxBatchSize == 2

Tasks == 1..MaxTasks
Prompts == 1..MaxPrompts

(***************************************************************************)
(* JSON values the external service may answer with. EmptyMap is the JSON  *)
(* object {}; R1 and R2 are two different non-empty objects.               *)
(***************************************************************************)
EmptyMap == <<>>
R1 == [entities |-> <<"Order">>]
R2 == [entities |-> <<"User">>]
Results == {EmptyMap, R1, R2}

\* Python truthiness of a dict: bool(d) is len(d) > 0.
Truthy(v) == DOMAIN v # {}

(***************************************************************************)
(* The cache directory. A file is absent or holds a text; json.dumps       *)
(* writes the text of a value, json.loads reads it back or raises on a     *)
(* text that is no JSON document (a truncated file).                       *)
(***************************************************************************)
NoFile == [exists |-> FALSE]
File(text) == [exists |-> TRUE, text |-> text]
Dumps(v) == [json |-> v]
Truncated == [bytes |-> "partial"]
Texts == {Dumps(v) : v \in Results} \cup {Truncated}
Loads(text) ==
    IF "json" \in DOMAIN text
    THEN [ok |-> TRUE, val |-> text.json]
    ELSE [ok |-> FALSE, err |-> "JSONDecodeError"]

\* LLMHandler._create_prompt and _get_cache_key: the digest of the prompt text.
CacheKey(p) == <<"sha256", p>>
CacheKeys == {CacheKey(p) : p \in Prompts}

\* LLMHandler._get_cached_response: None when the file is absent, the loaded
\* value when it exists; json.loads raises on a corrupt file.
GetCachedResponse(files, key) ==
    IF files[key].exists
    THEN LET r == Loads(files[key].text)
         IN  IF r.ok THEN [ok |-> TRUE, found |-> TRUE, val |-> r.val]
                     ELSE [ok |-> FALSE, found |-> TRUE, val |-> EmptyMap]
    ELSE [ok |-> TRUE, found |-> FALSE, val |-> EmptyMap]

\* LLMHandler._cache_response
CacheResponse(files, key, v) == [files EXCEPT ![key] = File(Dumps(v))]

\* The test `if cached:` of analyze_chunk: a hit is a found value that is truthy.
IsHit(c) == c.found /\ Truthy(c.val)

(***************************************************************************)
(* asyncio.Semaphore, as used by `async with self.semaphore`.              *)
(***************************************************************************)
LockedNever == FALSE

\* Semaphore.locked
Locked == sem_value = 0 \/ waiters # <<>>

\* Semaphore._wake_up_next on the queue q, the counter v and the set w of
\* resolved waiters: the first waiter whose future is not done takes one unit
\* of the counter.
FirstPending(q, w) ==
    LET idx == {i \in 1..Len(q) : q[i] \notin w}
    IN  IF idx = {} THEN 0 ELSE CHOOSE i \in idx : \A j \in idx : i <= j

WakeUpNext(q, v, w) ==
    IF FirstPending(q, w) = 0
    THEN [value |-> v, woken |-> w]
    ELSE [value |-> v - 1, woken |-> w \cup {q[FirstPending(q, w)]}]

Remove(s, e) == SelectSeq(s, LAMBDA x : x # e)

\* The lookup record of a task that has not looked yet.
NotLooked == [ok |-> TRUE, found |-> FALSE, val |-> EmptyMap]

IdleTask ==
    [pc |-> "idle", prompt |-> 0, cached |-> NotLooked, result |-> EmptyMap,
     failed |-> "none", called |-> FALSE, seqno |-> 0]

Finished(t) == task[t].pc \in {"done", "raised"}
InFlight == {t \in Tasks : task[t].pc = "calling"}

\* The file-to-layer merge before it is used.
MOff == m_pc = "off" /\ m_in = <<>> /\ m_out = <<>>

\* LLMHandler.__init__ on an empty cache directory.
HInit ==
    /\ batch_size \in 1..MaxBatchSize
    /\ sem_value = batch_size
    /\ waiters = <<>>
    /\ woken = {}
    /\ task = [t \in Tasks |-> IdleTask]
    /\ cache = [k \in CacheKeys |-> NoFile]
    /\ calls = [p \in Prompts |-> 0]

\* The run of an analyzer before it is used.
ROff == r_kind = "off" /\ r_files = <<>> /\ r_run = <<>>

\* The dependency analyzer before it is used.
GOff == g_in = <<>> /\ g_graph = <<>> /\ g_run = "off"

\* The business cross-layer pass before it is used.
XOff == x_pc = "off" /\ x_in = <<>> /\ x_out = <<>>

\* analyze_business_logic before it is called.
BOff == b_run = <<>>

Init == HInit /\ MOff /\ ROff /\ GOff /\ XOff /\ BOff

\* What the lookup of analyze_chunk found: a corrupt file, no file, a stored
\* non-empty value or a stored empty one.
LookupKind(c) ==
    IF ~c.ok THEN "corrupt"
    ELSE IF ~c.found THEN "absent"
    ELSE IF Truthy(c.val) THEN "value" ELSE "falsy"

\* The external request of task t for prompt p leaves (line 37).
StartCall(t, p, rec) ==
    /\ task' = [task EXCEPT ![t] = [rec EXCEPT !.pc = "calling", !.called = TRUE]]
    /\ calls' = [calls EXCEPT ![p] = @ + 1]

(***************************************************************************)
(* analyze_chunk, lines 29-35: up to the first suspension point. The cache *)
(* lookup and the test of the semaphore run without suspending.            *)
(***************************************************************************)
Call(t, p) ==
    /\ task[t].pc = "idle"
    /\ LET c == GetCachedResponse(cache, CacheKey(p))
           rec == [task[t] EXCEPT !.prompt = p, !.cached = c,
                                  !.seqno = Cardinality({u \in Tasks :
                                      Finished(u) /\ task[u].prompt = p})]
       IN  IF ~c.ok
           THEN \* json.loads raised outside the try block
                /\ task' = [task EXCEPT ![t] = [rec EXCEPT !.pc = "raised"]]
                /\ UNCHANGED <<sem_value, waiters, calls>>
           ELSE IF IsHit(c)
           THEN /\ task' = [task EXCEPT ![t] =
                               [rec EXCEPT !.pc = "done", !.result = c.val]]
                /\ UNCHANGED <<sem_value, waiters, calls>>
           ELSE IF ~Locked
           THEN /\ sem_value' = sem_value - 1
                /\ StartCall(t, p, rec)
                /\ UNCHANGED waiters
           ELSE /\ waiters' = Append(waiters, t)
                /\ task' = [task EXCEPT ![t] = [rec EXCEPT !.pc = "waiting"]]
                /\ UNCHANGED <<sem_value, calls>>
    /\ UNCHANGED <<batch_size, woken, cache>>
    /\ UNCHANGED NotH

(***************************************************************************)
(* Semaphore.acquire after `await fut`: the woken waiter leaves the queue, *)
(* passes a spare unit on, and the external request leaves.                *)
(***************************************************************************)
Resume(t) ==
    /\ task[t].pc = "waiting"
    /\ t \in woken
    /\ LET rest == Remove(waiters, t)
           w == IF sem_value > 0
                THEN WakeUpNext(rest, sem_value, woken \ {t})
                ELSE [value |-> sem_value, woken |-> woken \ {t}]
       IN  /\ sem_value' = w.value
           /\ woken' = w.woken
    /\ waiters' = Remove(waiters, t)
    /\ StartCall(t, task[t].prompt, task[t])
    /\ UNCHANGED <<batch_size, cache>>
    /\ UNCHANGED NotH

\* Semaphore.release, run by `async with` on every way out of the block.
Release ==
    LET w == WakeUpNext(waiters, sem_value + 1, woken)
    IN  /\ sem_value' = w.value
        /\ woken' = w.woken
        /\ UNCHANGED waiters

(***************************************************************************)
(* analyze_chunk, lines 46-48: the external call answered with the text of *)
(* the JSON value v; it is parsed, cached and returned.                    *)
(***************************************************************************)
ReturnOk(t, v) ==
    /\ task[t].pc = "calling"
    /\ cache' = CacheResponse(cache, CacheKey(task[t].prompt), v)
    /\ task' = [task EXCEPT ![t].pc = "done", ![t].result = v]
    /\ Release
    /\ UNCHANGED <<batch_size, calls>>
    /\ UNCHANGED NotH

OnExceptionReraise(rec, kind) == [rec EXCEPT !.pc = "raised", !.failed = kind]

\* What analyze_chunk does with an exception raised inside the try block
\* (lines 49-51): it is printed and the empty mapping is returned.
OnException(rec, kind) == [rec EXCEPT !.pc = "done", !.result = EmptyMap, !.failed = kind]

ReturnFailKeepsSlot(t, kind) ==
    /\ task[t].pc = "calling"
    /\ kind \in {"call", "parse"}
    /\ task' = [task EXCEPT ![t] = OnException(task[t], kind)]
    /\ UNCHANGED <<batch_size, sem_value, waiters, woken, cache, calls>>
    /\ UNCHANGED NotH

ReturnFailCaching(t, kind) ==
    /\ task[t].pc = "calling"
    /\ kind \in {"call", "parse"}
    /\ cache' = CacheResponse(cache, CacheKey(task[t].prompt), EmptyMap)
    /\ task' = [task EXCEPT ![t] = OnException(task[t], kind)]
    /\ Release
    /\ UNCHANGED <<batch_size, calls>>
    /\ UNCHANGED NotH

(***************************************************************************)
(* analyze_chunk, lines 49-51: the request raised ("call"), or its answer  *)
(* was no JSON document ("parse").                                         *)
(***************************************************************************)
ReturnFail(t, kind) ==
    /\ task[t].pc = "calling"
    /\ kind \in {"call", "parse"}
    /\ task' = [task EXCEPT ![t] = OnException(task[t], kind)]
    /\ Release
    /\ UNCHANGED <<batch_size, cache, calls>>
    /\ UNCHANGED NotH

(***************************************************************************)
(* analyze_chunk, line 47 raising: write_text failed. The file is as it    *)
(* was when it could not be opened, and truncated when the write failed    *)
(* after the open.                                                         *)
(***************************************************************************)
ReturnWriteFail(t, truncated) ==
    /\ task[t].pc = "calling"
    /\ cache' = IF truncated
                THEN [cache EXCEPT ![CacheKey(task[t].prompt)] = File(Truncated)]
                ELSE cache
    /\ task' = [task EXCEPT ![t] = OnException(task[t], "write")]
    /\ Release
    /\ UNCHANGED <<batch_size, calls>>
    /\ UNCHANGED NotH

Next ==
    \/ \E t \in Tasks, p \in Prompts : Call(t, p)
    \/ \E t \in Tasks : Resume(t)
    \/ \E t \in Tasks, v \in Results : ReturnOk(t, v)
    \/ \E t \in Tasks, kind \in {"call", "parse"} : ReturnFail(t, kind)
    \/ \E t \in Tasks, truncated \in BOOLEAN : ReturnWriteFail(t, truncated)

Spec == Init /\ [][Next]_vars

\* The external call of task t ends, one way or another.
CallEnds(t) ==
    \/ \E v \in Results : ReturnOk(t, v)
    \/ \E kind \in {"call", "parse"} : ReturnFail(t, kind)
    \/ \E truncated \in BOOLEAN : ReturnWriteFail(t, truncated)

\* The event loop runs every task that is ready (a woken waiter resumes), and
\* every external call returns or fails.
SpecFair ==
    /\ Spec
    /\ \A t \in Tasks : WF_vars(Resume(t))
    /\ \A t \in Tasks : WF_vars(CallEnds(t))

(***************************************************************************)
(* Python values. A dict is a function on its keys, a list a sequence. A   *)
(* field the code handles with set operations ('attributes', 'methods',    *)
(* 'entities_involved') arrives from json.loads as an array or an object;  *)
(* the value carries its Python type, because list, dict and set answer    *)
(* differently to update.                                                  *)
(***************************************************************************)
List(s) == [list |-> s]
Dict(f) == [dict |-> f]
PySet(S) == [set |-> S]

Range(s) == {s[i] : i \in DOMAIN s}

\* The elements iterating over the value yields: list items, dict keys, set members.
Elems(v) ==
    IF "list" \in DOMAIN v THEN Range(v.list)
    ELSE IF "dict" \in DOMAIN v THEN DOMAIN v.dict
    ELSE v.set

\* d.get(k, default), d with d[k] = v, and d without k
Get(d, k, default) == IF k \in DOMAIN d THEN d[k] ELSE default
Put(d, k, v) == [x \in DOMAIN d \cup {k} |-> IF x = k THEN v ELSE d[x]]
Drop(d, k) == [x \in DOMAIN d \ {k} |-> d[x]]

\* An exception leaving a function, in place of its value.
Raise(e) == [raised |-> e]
IsRaise(r) == "raised" \in DOMAIN r

(***************************************************************************)
(* target.update(src), as _merge_entity and _merge_process call it: a list *)
(* has no update; a dict takes the items of a dict, nothing from an empty  *)
(* iterable, and rejects an iterable of names (the names of the model are  *)
(* one character long, so none is a key/value pair); a set takes the union.*)
(***************************************************************************)
UpdateSet(target, src) ==
    IF "list" \in DOMAIN target THEN Raise("AttributeError")
    ELSE IF "dict" \in DOMAIN target
    THEN IF "dict" \in DOMAIN src THEN Dict(src.dict @@ target.dict)
         ELSE IF Elems(src) = {} THEN target
         ELSE Raise("ValueError")
    ELSE PySet(target.set \cup Elems(src))

\* existing[k].update(new.get(k, [])); existing[k] raises KeyError when absent.
UpdateField(existing, new, k) ==
    IF k \notin DOMAIN existing THEN Raise("KeyError")
    ELSE LET u == UpdateSet(existing[k], Get(new, k, List(<<>>)))
         IN  IF IsRaise(u) THEN u ELSE Put(existing, k, u)

\* existing[k].extend(new.get(k, []))
ExtendField(existing, new, k) ==
    IF k \notin DOMAIN existing THEN Raise("KeyError")
    ELSE Put(existing, k, existing[k] \o Get(new, k, <<>>))

(***************************************************************************)
(* BusinessAnalyzer._merge_entity (lines 147-152); an exception ends it.   *)
(***************************************************************************)
MergeEntity(existing, new) ==
    LET a == UpdateField(existing, new, "attributes")
        m == IF IsRaise(a) THEN a ELSE UpdateField(a, new, "methods")
        r == IF IsRaise(m) THEN m ELSE ExtendField(m, new, "relationships")
    IN  IF IsRaise(r) THEN r ELSE ExtendField(r, new, "rules")

MoreDetailedOrEqual(existing, new) ==
    Len(Get(new, "description", "")) >= Len(existing["description"])

\* len(new.get('description', '')) > len(existing['description'])
MoreDetailed(existing, new) ==
    Len(Get(new, "description", "")) > Len(existing["description"])

\* Lines 161-163: the steps of `new` that `existing` had not are appended.
MergeSteps(existing, new) ==
    IF "steps" \notin DOMAIN existing THEN Raise("KeyError")
    ELSE Put(existing, "steps",
             existing["steps"] \o
             SelectSeq(Get(new, "steps", <<>>),
                       LAMBDA x : x \notin Range(existing["steps"])))

(***************************************************************************)
(* BusinessAnalyzer._merge_process (lines 154-169)                         *)
(***************************************************************************)
MergeProcess(existing, new) ==
    LET d0 == IF "description" \notin DOMAIN existing THEN Raise("KeyError")
              ELSE IF MoreDetailed(existing, new)
                   THEN Put(existing, "description", new["description"])
                   ELSE existing
        d1 == IF IsRaise(d0) THEN d0 ELSE MergeSteps(d0, new)
        d2 == IF IsRaise(d1) THEN d1 ELSE UpdateField(d1, new, "entities_involved")
    IN  IF IsRaise(d2) THEN d2 ELSE ExtendField(d2, new, "critical_paths")

\* The accumulator of _merge_chunk_analyses (lines 85-93); the seen sets are
\* the names of the entities and processes it holds.
NewFileResult ==
    [entities |-> <<>>, processes |-> <<>>, relationships |-> <<>>, rules |-> <<>>]

Names(list) == {list[i]["name"] : i \in DOMAIN list}

\* Lines 97-100: an entity of a name not yet seen is appended.
AddChunkEntity(merged, entity) ==
    IF entity["name"] \notin Names(merged["entities"])
    THEN Put(merged, "entities", Append(merged["entities"], entity))
    ELSE merged

\* Lines 103-107 for one process of `analysis`: a process of a name not yet
\* seen is appended, and the chunk's relationships with it.
AddChunkProcess(merged, process, analysis) ==
    IF process["name"] \notin Names(merged["processes"])
    THEN [merged EXCEPT
            !["processes"] = Append(@, process),
            !["relationships"] = @ \o Get(analysis, "relationships", <<>>)]
    ELSE merged

RECURSIVE AddChunkEntities(_, _)
\* Lines 97-100: the loop over the entities of one chunk's analysis.
AddChunkEntities(merged, entities) ==
    IF entities = <<>> THEN merged
    ELSE AddChunkEntities(AddChunkEntity(merged, Head(entities)), Tail(entities))

RECURSIVE AddChunkProcesses(_, _, _)
\* Lines 103-107: the loop over the processes of one chunk's analysis.
AddChunkProcesses(merged, processes, analysis) ==
    IF processes = <<>> THEN merged
    ELSE AddChunkProcesses(AddChunkProcess(merged, Head(processes), analysis),
                           Tail(processes), analysis)

\* Lines 95-108: the body of the loop for one chunk's analysis.
AddChunkAnalysis(merged, analysis) ==
    LET e == AddChunkEntities(merged, Get(analysis, "entities", <<>>))
        q == AddChunkProcesses(e, Get(analysis, "processes", <<>>), analysis)
    IN  [q EXCEPT !["rules"] = @ \o Get(analysis, "rules", <<>>)]

RECURSIVE AddChunkAnalyses(_, _)
\* Line 95: the loop over the analyses of the chunks, in chunk order.
AddChunkAnalyses(merged, analyses) ==
    IF analyses = <<>> THEN merged
    ELSE AddChunkAnalyses(AddChunkAnalysis(merged, Head(analyses)), Tail(analyses))

MergeChunkAnalysesAllOrNothing(analyses, file_path) ==
    Put(IF \E i \in DOMAIN analyses : ~Truthy(analyses[i])
        THEN NewFileResult
        ELSE AddChunkAnalyses(NewFileResult, analyses),
        "source_file", file_path)

(***************************************************************************)
(* BusinessAnalyzer._merge_chunk_analyses (lines 83-111)                   *)
(***************************************************************************)
MergeChunkAnalyses(analyses, file_path) ==
    Put(AddChunkAnalyses(NewFileResult, analyses), "source_file", file_path)

\* The accumulator of _merge_file_analyses (lines 115-120).
NewLayerResult ==
    [entities |-> <<>>, processes |-> <<>>, relationships |-> <<>>, rules |-> <<>>]

\* analysis['source_file'], a KeyError when the per-file result has none
SourceFile(analysis) ==
    IF "source_file" \in DOMAIN analysis THEN PySet({analysis["source_file"]})
    ELSE Raise("KeyError")

\* Lines 124-131 for one entity of `analysis`.
AddFileEntity(merged, entity, analysis) ==
    LET name == entity["name"]
        sf == SourceFile(analysis)
    IN  IF name \notin DOMAIN merged["entities"]
        THEN IF IsRaise(sf) THEN sf
             ELSE [merged EXCEPT
                     !["entities"] = Put(@, name, Put(entity, "source_files", sf))]
        ELSE LET e == MergeEntity(merged["entities"][name], entity)
             IN  IF IsRaise(e) THEN e
                 ELSE IF IsRaise(sf) THEN sf
                 ELSE [merged EXCEPT !["entities"] =
                         Put(@, name, Put(e, "source_files",
                                          PySet(e["source_files"].set \cup sf.set)))]

\* Lines 134-139 for one process.
AddFileProcess(merged, process) ==
    LET name == process["name"]
    IN  IF name \notin DOMAIN merged["processes"]
        THEN [merged EXCEPT !["processes"] = Put(@, name, process)]
        ELSE LET q == MergeProcess(merged["processes"][name], process)
             IN  IF IsRaise(q) THEN q
                 ELSE [merged EXCEPT !["processes"] = Put(@, name, q)]

RECURSIVE AddFileEntities(_, _, _)
\* Lines 124-131: the loop over the entities of one per-file result; an
\* exception ends it.
AddFileEntities(merged, entities, analysis) ==
    IF entities = <<>> \/ IsRaise(merged) THEN merged
    ELSE AddFileEntities(AddFileEntity(merged, Head(entities), analysis),
                         Tail(entities), analysis)

RECURSIVE AddFileProcesses(_, _)
\* Lines 134-139: the loop over the processes of one per-file result.
AddFileProcesses(merged, processes) ==
    IF processes = <<>> \/ IsRaise(merged) THEN merged
    ELSE AddFileProcesses(AddFileProcess(merged, Head(processes)), Tail(processes))

\* Lines 122-143: the body of the loop for one per-file result.
AddFileAnalysis(merged, analysis) ==
    LET e == AddFileEntities(merged, Get(analysis, "entities", <<>>), analysis)
        q == IF IsRaise(e) THEN e
             ELSE AddFileProcesses(e, Get(analysis, "processes", <<>>))
    IN  IF IsRaise(q) THEN q
        ELSE [q EXCEPT !["relationships"] = @ \o Get(analysis, "relationships", <<>>),
                       !["rules"] = @ \o Get(analysis, "rules", <<>>)]

RECURSIVE AddFileAnalyses(_, _)
\* Line 122: the loop over the per-file results, in the order of the gather.
AddFileAnalyses(merged, analyses) ==
    IF analyses = <<>> \/ IsRaise(merged) THEN merged
    ELSE AddFileAnalyses(AddFileAnalysis(merged, Head(analyses)), Tail(analyses))

(***************************************************************************)
(* BusinessAnalyzer._merge_file_analyses (lines 113-145)                   *)
(***************************************************************************)
MergeFileAnalyses(analyses) == AddFileAnalyses(NewLayerResult, analyses)

(***************************************************************************)
(* The file-to-layer merge on its own: SpecFileMerge hands                 *)
(* _merge_file_analyses every list of per-file results of the sample       *)
(* below. A per-file result is what _analyze_file returns: {} for a file   *)
(* that failed, else the chunk merge of the file's answers.                *)
(***************************************************************************)
MaxMergeFiles == 2

\* The path of the f-th file of the layer.
PathOf(f) == <<"models", f>>

\* How an answer spells a collection of names: a JSON array or a JSON object.
Enc(kind, names) ==
    IF kind = "list" THEN List(names) ELSE Dict([x \in Range(names) |-> "str"])

AB == <<"a", "b">>
BC == <<"b", "c">>

\* An entity Order as an answer may hold it: its attributes spelled as `kind`,
\* and without the field `missing` when that names one of its fields.
OrderEntity(kind, attrs, missing) ==
    Drop([name |-> "Order",
          attributes |-> Enc(kind, attrs),
          methods |-> Enc(kind, IF attrs = AB THEN <<"m">> ELSE <<"n">>),
          relationships |-> IF attrs = AB THEN <<"has">> ELSE <<>>,
          rules |-> IF attrs = AB THEN <<"total must be positive">> ELSE <<>>],
         missing)

UserEntity ==
    [name |-> "User", attributes |-> List(<<"a">>), methods |-> List(<<>>),
     relationships |-> <<>>, rules |-> <<>>]

\* A process Pay as an answer may hold it.
PayProcess(kind, steps, missing) ==
    Drop([name |-> "Pay",
          description |-> IF steps[1] = "validate" THEN "pay" ELSE "pay an order",
          steps |-> steps,
          entities_involved |-> Enc(kind, IF steps[1] = "validate" THEN AB ELSE BC),
          critical_paths |-> IF steps[1] = "validate" THEN <<"p1">> ELSE <<>>],
         missing)

SampleEntities ==
    {OrderEntity(kind, attrs, missing) :
        kind \in {"list", "dict"}, attrs \in {AB, BC},
        missing \in {"none", "attributes", "methods", "relationships", "rules"}}
    \cup {UserEntity}

SampleProcesses ==
    {PayProcess(kind, steps, missing) :
        kind \in {"list", "dict"},
        steps \in {<<"validate", "save">>, <<"save", "notify">>},
        missing \in {"none", "description", "steps", "entities_involved",
                     "critical_paths"}}

\* The answers to the single chunk of a file.
SampleAnswers ==
    {[entities |-> <<e>>, relationships |-> <<"r">>, rules |-> <<"x">>] :
        e \in SampleEntities}
    \cup {[processes |-> <<q>>] : q \in SampleProcesses}
    \cup {[entities |-> <<UserEntity>>,
           processes |-> <<PayProcess("dict", <<"validate", "save">>, "none")>>]}

\* The per-file results of the f-th file.
FileResults(f) ==
    {EmptyMap} \cup {MergeChunkAnalyses(<<a>>, PathOf(f)) : a \in SampleAnswers}

MInit ==
    /\ m_pc = "input"
    /\ \E n \in 1..MaxMergeFiles :
          m_in \in {s \in [1..n -> UNION {FileResults(f) : f \in 1..n}] :
                       \A f \in 1..n : s[f] \in FileResults(f)}
    /\ m_out = <<>>

\* _merge_file_analyses is called on the per-file results.
MergeFiles ==
    /\ m_pc = "input"
    /\ m_pc' = "merged"
    /\ m_out' = MergeFileAnalyses(m_in)
    /\ UNCHANGED m_in
    /\ UNCHANGED NotM

\* The layer of a run of the client that stays unused.
HOff ==
    /\ batch_size = 0 /\ sem_value = 0 /\ waiters = <<>> /\ woken = {}
    /\ task = <<>> /\ cache = <<>> /\ calls = <<>>

MergeInit == MInit /\ HOff /\ ROff /\ GOff /\ XOff /\ BOff

SpecFileMerge == MergeInit /\ [][MergeFiles]_vars


(***************************************************************************)
(* The chunk-to-file merge on its own: _merge_chunk_analyses applied to    *)
(* the answers to the chunks of one file.                                  *)
(***************************************************************************)
MaxMergeChunks == 2

\* What analyze_chunk may return for a chunk: an answer, or {} after a failure.
ChunkAnswers == SampleAnswers \cup {EmptyMap}

KInit ==
    /\ m_pc = "chunks"
    /\ \E n \in 1..MaxMergeChunks : m_in \in [1..n -> ChunkAnswers]
    /\ m_out = <<>>

\* _analyze_file, line 77: the answers to the chunks are merged.
MergeChunks ==
    /\ m_pc = "chunks"
    /\ m_pc' = "file"
    /\ m_out' = MergeChunkAnalyses(m_in, PathOf(1))
    /\ UNCHANGED m_in
    /\ UNCHANGED NotM

ChunkMergeInit == KInit /\ HOff /\ ROff /\ GOff /\ XOff /\ BOff

SpecChunkMerge == ChunkMergeInit /\ [][MergeChunks]_vars

(***************************************************************************)
(* Both merge levels side by side: a run of this specification merges the  *)
(* answers to the chunks of a file, or the per-file results of a layer.    *)
(***************************************************************************)
BothMergesInit == (KInit \/ MInit) /\ HOff /\ ROff /\ GOff /\ XOff /\ BOff

BothMergesNext == MergeChunks \/ MergeFiles

SpecBothMerges == BothMergesInit /\ [][BothMergesNext]_vars

(***************************************************************************)
(* _merge_process on its own: a process B merged into a same-named process *)
(* A, over the step lists of both.                                         *)
(***************************************************************************)
MaxSteps == 2

StepNames == {"validate", "save", "notify"}

\* The step lists of MaxSteps steps at most.
StepLists == UNION {[1..k -> StepNames] : k \in 0..MaxSteps}

NoDuplicates(steps) == \A i, j \in DOMAIN steps : steps[i] = steps[j] => i = j

\* A process Pay with the given steps, its entities spelled as `kind`.
StepProcess(kind, steps) ==
    [name |-> "Pay", description |-> "pay", steps |-> steps,
     entities_involved |-> Enc(kind, AB), critical_paths |-> <<>>]

\* The descriptions an answer may give the process, two of one length.
Descriptions == {"pay", "buy", "pay an order"}

\* The process with the description d, or without the field.
Described(process, d, present) ==
    IF present THEN Put(process, "description", d) ELSE Drop(process, "description")

\* The existing process has steps without duplicates; the new one has any
\* steps, or no field 'steps', and any description or none.
PInit ==
    /\ m_pc = "processes"
    /\ \E ka, kb \in {"list", "dict"} :
       \E sa \in {x \in StepLists : NoDuplicates(x)}, sb \in StepLists :
       \E da \in {"pay", "pay an order"}, db \in Descriptions :
       \E present \in {TRUE, db # "buy"} :
          m_in \in {<<Described(StepProcess(ka, sa), da, TRUE),
                      Described(StepProcess(kb, sb), db, present)>>,
                    <<Described(StepProcess(ka, sa), da, TRUE),
                      Drop(Described(StepProcess(kb, sb), db, present), "steps")>>}
    /\ m_out = <<>>

\* _merge_file_analyses, line 139: the new process is merged into the existing one.
MergeProcesses ==
    /\ m_pc = "processes"
    /\ m_pc' = "process"
    /\ m_out' = MergeProcess(m_in[1], m_in[2])
    /\ UNCHANGED m_in
    /\ UNCHANGED NotM

ProcessMergeInit == PInit /\ HOff /\ ROff /\ GOff /\ XOff /\ BOff

SpecProcessMerge == ProcessMergeInit /\ [][MergeProcesses]_vars

(***************************************************************************)
(* The chunker and its callers. CodeChunker (utils/chunking.py) is         *)
(* imported by both analyzers and is not part of the sources at hand; it   *)
(* is taken from its contract: chunk(text, maxTokens) cuts the text at     *)
(* line ends where it can, splits a line that alone exceeds maxTokens,     *)
(* loses no character, and yields nothing for the empty text. A text is    *)
(* the sequence of its lines, a line the number of tokens it is estimated  *)
(* at; a chunk is a sequence of pieces of lines.                           *)
(***************************************************************************)
MaxLines == 3
MaxLineTokens == 3
MaxMaxTokens == 2

Contents == UNION {[1..n -> 0..MaxLineTokens] : n \in 0..MaxLines}

RECURSIVE EstimatedTokens(_)
\* The estimated size of a chunk: the tokens of its pieces.
EstimatedTokens(chunk) ==
    IF chunk = <<>> THEN 0 ELSE Head(chunk).tokens + EstimatedTokens(Tail(chunk))

RECURSIVE SplitLine(_, _, _)
\* The pieces of line i, of t tokens: the line itself when it fits.
SplitLine(i, t, maxTokens) ==
    IF t <= maxTokens THEN <<[line |-> i, tokens |-> t]>>
    ELSE <<[line |-> i, tokens |-> maxTokens]>> \o SplitLine(i, t - maxTokens, maxTokens)

RECURSIVE Pieces(_, _, _)
\* The pieces of the lines from line i on.
Pieces(text, i, maxTokens) ==
    IF i > Len(text) THEN <<>>
    ELSE SplitLine(i, text[i], maxTokens) \o Pieces(text, i + 1, maxTokens)

RECURSIVE Pack(_, _, _)
\* Pieces fill the current chunk while it stays within maxTokens.
Pack(pieces, current, maxTokens) ==
    IF pieces = <<>> THEN (IF current = <<>> THEN <<>> ELSE <<current>>)
    ELSE IF current # <<>> /\ EstimatedTokens(current) + Head(pieces).tokens > maxTokens
    THEN <<current>> \o Pack(Tail(pieces), <<Head(pieces)>>, maxTokens)
    ELSE Pack(Tail(pieces), Append(current, Head(pieces)), maxTokens)

\* CodeChunker(max_tokens).chunk_code(content), as a list.
ChunkCode(text, maxTokens) == Pack(Pieces(text, 1, maxTokens), <<>>, maxTokens)

DispatchChunksOrContent(chunks) ==
    IF chunks = <<>> THEN <<[chunk |-> <<>>]>>
    ELSE [c \in DOMAIN chunks |-> [chunk |-> chunks[c]]]

\* BusinessAnalyzer._analyze_file, lines 72-75: one analyze_chunk call per
\* chunk, in chunk order.
DispatchChunks(chunks) == [c \in DOMAIN chunks |-> [chunk |-> chunks[c]]]

TInit ==
    /\ m_pc = "content"
    /\ m_in \in [content : Contents, max_tokens : 1..MaxMaxTokens]
    /\ m_out = <<>>

\* BusinessAnalyzer._analyze_file, lines 69-75: the content is chunked and
\* the calls are dispatched.
ChunkAndDispatch ==
    /\ m_pc = "content"
    /\ m_pc' = "dispatched"
    /\ \E chunks \in {ChunkCode(m_in.content, m_in.max_tokens)} :
          m_out' = [chunks |-> chunks, calls |-> DispatchChunks(chunks)]
    /\ UNCHANGED m_in
    /\ UNCHANGED NotM

ChunkerInit == TInit /\ HOff /\ ROff /\ GOff /\ XOff /\ BOff

SpecChunker == ChunkerInit /\ [][ChunkAndDispatch]_vars

(***************************************************************************)
(* One gather and its merge: the chunk calls of a file in                  *)
(* BusinessAnalyzer._analyze_file, lines 72-77. The calls complete in any  *)
(* order; each returns the answer fixed for it.                            *)
(***************************************************************************)
MaxArrivals == 3

\* The answers to a chunk: two descriptions of Order and of Pay that differ,
\* one with arrays where the others have objects, or nothing.
ArrivalAnswers ==
    {EmptyMap,
     [entities |-> <<OrderEntity("dict", AB, "none")>>, rules |-> <<"x">>],
     [entities |-> <<OrderEntity("dict", BC, "none")>>, rules |-> <<"y">>],
     [entities |-> <<OrderEntity("list", AB, "none")>>],
     [processes |-> <<PayProcess("dict", <<"validate", "save">>, "none")>>,
      relationships |-> <<"r">>],
     [processes |-> <<PayProcess("dict", <<"save", "notify">>, "none")>>]}

GatherResultsAsCompleted(tasks, arrived) == [i \in DOMAIN arrived |-> tasks[arrived[i]]]

\* asyncio.gather: the results in the order of the awaitables it was given.
GatherResults(tasks, arrived) == tasks

\* The merge of the gathered answers, line 77.
MergeOf(results) == MergeChunkAnalyses(results, PathOf(1))

AInit ==
    /\ m_pc = "gathering"
    /\ \E n \in 1..MaxArrivals : m_in \in [tasks : [1..n -> ArrivalAnswers]]
    /\ m_out = [arrived |-> <<>>, result |-> EmptyMap]

\* Task i of the gather completes.
TaskCompletes(i) ==
    /\ m_pc = "gathering"
    /\ i \in DOMAIN m_in.tasks
    /\ \A k \in DOMAIN m_out.arrived : m_out.arrived[k] # i
    /\ m_out' = [m_out EXCEPT !.arrived = Append(@, i)]
    /\ UNCHANGED <<m_pc, m_in>>
    /\ UNCHANGED NotM

\* Every task completed: the gather returns and its results are merged.
GatherReturns ==
    /\ m_pc = "gathering"
    /\ Len(m_out.arrived) = Len(m_in.tasks)
    /\ m_pc' = "gathered"
    /\ \E result \in {MergeOf(GatherResults(m_in.tasks, m_out.arrived))} :
          m_out' = [m_out EXCEPT !.result = result]
    /\ UNCHANGED m_in
    /\ UNCHANGED NotM

ArrivalNext == (\E i \in 1..MaxArrivals : TaskCompletes(i)) \/ GatherReturns

ArrivalInit == AInit /\ HOff /\ ROff /\ GOff /\ XOff /\ BOff

SpecArrival == ArrivalInit /\ [][ArrivalNext]_vars

(***************************************************************************)
(* Runs of the analyzers: CodeAnalyzer.analyze_project ("code"), one layer *)
(* of the BusinessAnalyzer, _analyze_layer ("layer"), and calls of         *)
(* BusinessAnalyzer._analyze_file on the files of a layer ("file").        *)
(* code_analyzer.py and business_analyzer.py import neither json nor re,   *)
(* and CodeAnalyzer defines no _determine_component_type: the lines that   *)
(* use them raise NameError or AttributeError. An analyze_chunk call is    *)
(* taken here by its outcome: it returns the answer, it returns {} after a *)
(* failure it swallowed, or its cache lookup raises.                       *)
(***************************************************************************)
MaxFiles == 2
MaxCalls == 4

Files == 1..MaxFiles

\* What rglob yields at one place of the project: a regular file with a
\* supported extension, a regular file with another extension, a directory,
\* or a path that holds an ignore pattern.
Entries == {"file", "other", "directory", "ignored"}

\* CodeAnalyzer._should_analyze, lines 38-50
ShouldAnalyze(entry) == entry = "file"

\* BusinessAnalyzer._matches_pattern, lines 53-61: False for what is not a
\* file and for an ignored path; re.search raises for any other path.
MatchesPattern(entry) ==
    IF entry \in {"directory", "ignored"}
    THEN [value |-> FALSE]
    ELSE Raise("NameError")

\* The answer of the service to chunk c of file f: odd chunks describe the
\* entity Order, even chunks the entity User and the process Pay.
AnswerOf(f, c) ==
    IF c % 2 = 1
    THEN [entities |-> <<OrderEntity("dict", IF f % 2 = 1 THEN AB ELSE BC, "none")>>,
          rules |-> <<"x">>]
    ELSE [entities |-> <<UserEntity>>,
          processes |-> <<PayProcess("dict",
                                     IF f % 2 = 1 THEN <<"validate", "save">>
                                                  ELSE <<"save", "notify">>,
                                     "none")>>,
          relationships |-> <<"r">>,
          rules |-> <<"y">>]

\* An analyze_chunk call that has been dispatched.
CallingSlot == [pc |-> "calling", result |-> EmptyMap, failed |-> "none"]

\* A path of the project that has no _analyze_file task.
NoTask(entry) ==
    [entry |-> entry, pc |-> "none", slots |-> <<>>, status |-> "none",
     result |-> EmptyMap]

\* A file whose _analyze_file task has been created.
PendingFile == [NoTask("file") EXCEPT !.pc = "pending"]

HasTask(rec) == rec.pc # "none"

\* The results of the gathered analyze_chunk calls, in chunk order.
Analyses(slots) == [c \in DOMAIN slots |-> slots[c].result]

\* What BusinessAnalyzer._analyze_file returns when nothing raised, line 77.
FileReturn(f, slots) == MergeChunkAnalyses(Analyses(slots), PathOf(f))

\* The handler of _analyze_file (business: lines 79-81; code: lines 69-71):
\* the error is printed and {} returned.
FileExcept(rec) ==
    [rec EXCEPT !.pc = "done", !.status = "failed", !.result = EmptyMap]

\* analyze_project created one task per path _should_analyze takes (lines
\* 21-26); _analyze_layer is about to list its files (lines 44-45);
\* _analyze_file was called on each file of a layer.
RInit ==
    /\ r_kind \in {"code", "layer", "file"}
    /\ \E entries \in [Files -> Entries] :
          /\ r_kind = "file" => \A f \in Files : entries[f] = "file"
          /\ r_files = [f \in Files |->
                           IF r_kind = "file" \/ (r_kind = "code" /\ ShouldAnalyze(entries[f]))
                           THEN PendingFile
                           ELSE NoTask(entries[f])]
    /\ r_run = [pc |-> CASE r_kind = "code" -> "gather"
                         [] r_kind = "layer" -> "select"
                         [] OTHER -> "direct",
                out |-> EmptyMap, requests |-> 0]

\* _analyze_layer, lines 44-45: _matches_pattern is asked for each path in
\* turn and raises for the first regular file that is not ignored; no path
\* is ever taken.
LayerFiles(entries) ==
    IF \E i \in DOMAIN entries : IsRaise(MatchesPattern(entries[i]))
    THEN Raise("NameError")
    ELSE <<>>

\* _analyze_layer, lines 42-51: with no file the gather is over nothing and
\* the empty merge is returned.
AnalyzeLayer(entries) ==
    IF IsRaise(LayerFiles(entries))
    THEN LayerFiles(entries)
    ELSE MergeFileAnalyses(LayerFiles(entries))

\* One call of _analyze_layer, which never waits.
SelectFiles ==
    /\ r_kind = "layer" /\ r_run.pc = "select"
    /\ \E out \in {AnalyzeLayer([f \in Files |-> r_files[f].entry])} :
          r_run' = [r_run EXCEPT !.pc = IF IsRaise(out) THEN "raised" ELSE "returned",
                                 !.out = out]
    /\ UNCHANGED <<r_kind, r_files>>
    /\ UNCHANGED NotR

\* CodeAnalyzer._analyze_file, lines 52-71: the file is read (or open
\* raises), and _perform_llm_analysis raises AttributeError at line 90
\* before any analyze_chunk call; the handler returns {}.
AnalyzeFileCode(f) ==
    /\ r_kind = "code"
    /\ r_files[f].pc = "pending"
    /\ r_files' = [r_files EXCEPT ![f] = FileExcept(@)]
    /\ UNCHANGED <<r_kind, r_run>>
    /\ UNCHANGED NotR

RECURSIVE Dispatched(_)
\* The analyze_chunk calls the first n files of the run have dispatched.
Dispatched(n) == IF n = 0 THEN 0 ELSE Len(r_files[n].slots) + Dispatched(n - 1)

\* BusinessAnalyzer._analyze_file read its file and dispatched one
\* analyze_chunk per chunk (lines 65-75); the files have MaxCalls chunks at
\* most between them.
ReadFile(f, n) ==
    /\ r_kind = "file"
    /\ r_files[f].pc = "pending"
    /\ Dispatched(MaxFiles) + n <= MaxCalls
    /\ r_files' = [r_files EXCEPT ![f].pc = "chunks",
                                  ![f].slots = [c \in 1..n |-> CallingSlot]]
    /\ UNCHANGED <<r_kind, r_run>>
    /\ UNCHANGED NotR

\* open, read or the chunker raised in BusinessAnalyzer._analyze_file.
FileFails(f) ==
    /\ r_kind = "file"
    /\ r_files[f].pc = "pending"
    /\ r_files' = [r_files EXCEPT ![f] = FileExcept(@)]
    /\ UNCHANGED <<r_kind, r_run>>
    /\ UNCHANGED NotR

\* analyze_chunk returned the answer of the service (or the cached one).
ChunkReturns(f, c) ==
    /\ c \in DOMAIN r_files[f].slots
    /\ r_files[f].slots[c].pc = "calling"
    /\ r_files' = [r_files EXCEPT ![f].slots[c].pc = "done",
                                  ![f].slots[c].result = AnswerOf(f, c)]
    /\ UNCHANGED <<r_kind, r_run>>
    /\ UNCHANGED NotR

\* The external call of analyze_chunk failed.
ChunkFails(f, c) ==
    /\ c \in DOMAIN r_files[f].slots
    /\ r_files[f].slots[c].pc = "calling"
    /\ r_files' = [r_files EXCEPT ![f].slots[c] = OnException(@, "call")]
    /\ UNCHANGED <<r_kind, r_run>>
    /\ UNCHANGED NotR

\* The cache lookup of analyze_chunk raised on a corrupt entry.
ChunkRaises(f, c) ==
    /\ c \in DOMAIN r_files[f].slots
    /\ r_files[f].slots[c].pc = "calling"
    /\ r_files' = [r_files EXCEPT ![f].slots[c].pc = "raised"]
    /\ UNCHANGED <<r_kind, r_run>>
    /\ UNCHANGED NotR

\* The gather of _analyze_file passes the exception of a call on; the other
\* calls of the file go on running.
FileGatherRaises(f) ==
    /\ r_files[f].pc = "chunks"
    /\ \E c \in DOMAIN r_files[f].slots : r_files[f].slots[c].pc = "raised"
    /\ r_files' = [r_files EXCEPT ![f] = FileExcept(@)]
    /\ UNCHANGED <<r_kind, r_run>>
    /\ UNCHANGED NotR

FileMergeEarly(f) ==
    /\ r_files[f].pc = "chunks"
    /\ \E c \in DOMAIN r_files[f].slots : r_files[f].slots[c].pc = "done"
    /\ \A c \in DOMAIN r_files[f].slots : r_files[f].slots[c].pc # "raised"
    /\ r_files' = [r_files EXCEPT
                     ![f].pc = "done", ![f].status = "ok",
                     ![f].result = FileReturn(f, r_files[f].slots)]
    /\ UNCHANGED <<r_kind, r_run>>
    /\ UNCHANGED NotR

\* Every call of the file returned: the answers are merged.
FileMerge(f) ==
    /\ r_files[f].pc = "chunks"
    /\ \A c \in DOMAIN r_files[f].slots : r_files[f].slots[c].pc = "done"
    /\ r_files' = [r_files EXCEPT
                     ![f].pc = "done", ![f].status = "ok",
                     ![f].result = FileReturn(f, r_files[f].slots)]
    /\ UNCHANGED <<r_kind, r_run>>
    /\ UNCHANGED NotR

\* The results of the gather of the run, in the order of the tasks.
FileResultsOf(files) ==
    LET tasks == SelectSeq(files, HasTask)
    IN  [i \in DOMAIN tasks |-> tasks[i].result]

RECURSIVE UpdateComponents(_, _)
\* analyze_project, lines 29-31: components.update(result) for each result
\* that is not empty.
UpdateComponents(components, results) ==
    IF results = <<>> THEN components
    ELSE UpdateComponents(IF Truthy(Head(results))
                          THEN Head(results) @@ components
                          ELSE components,
                          Tail(results))

\* CodeAnalyzer._analyze_relationships, lines 121-130: the request is built
\* with json.dumps, which raises NameError before analyze_chunk is called.
AnalyzeRelationships(components) == Raise("NameError")

\* analyze_project, lines 26-36: the gather ended, the results are put into
\* the component map and _analyze_relationships is awaited; what it raises
\* ends the run.
RunMerge ==
    /\ r_kind = "code" /\ r_run.pc = "gather"
    /\ \A f \in Files : r_files[f].pc \in {"done", "none"}
    /\ \E components \in {UpdateComponents(EmptyMap, FileResultsOf(r_files))} :
       \E rel \in {AnalyzeRelationships(components)} :
          r_run' = IF IsRaise(rel)
                   THEN [r_run EXCEPT !.pc = "raised", !.out = rel]
                   ELSE [r_run EXCEPT !.pc = "returned", !.out = components]
    /\ UNCHANGED <<r_kind, r_files>>
    /\ UNCHANGED NotR

RNext ==
    \/ SelectFiles
    \/ \E f \in Files : AnalyzeFileCode(f)
    \/ \E f \in Files, n \in 0..MaxCalls : ReadFile(f, n)
    \/ \E f \in Files : FileFails(f)
    \/ \E f \in Files, c \in 1..MaxCalls : ChunkReturns(f, c)
    \/ \E f \in Files, c \in 1..MaxCalls : ChunkFails(f, c)
    \/ \E f \in Files, c \in 1..MaxCalls : ChunkRaises(f, c)
    \/ \E f \in Files : FileGatherRaises(f)
    \/ \E f \in Files : FileMerge(f)
    \/ RunMerge

RunInit == RInit /\ HOff /\ MOff /\ GOff /\ XOff /\ BOff

SpecRun == RunInit /\ [][RNext]_vars

\* A run in which every external call returns or fails and the event loop
\* runs every task that is ready.
SpecRunFair == RunInit /\ [][RNext]_vars /\ WF_vars(RNext)


(***************************************************************************)
(* BusinessAnalyzer.analyze_business_logic: one _analyze_layer task per    *)
(* layer is gathered (lines 28-31), the layer results are handed to        *)
(* _merge_layer_analysis (lines 34-35), the cross-layer request is made    *)
(* (line 38). Every layer lists the same project root, and a layer task    *)
(* never waits: the tasks end in the order of the layers. The class        *)
(* defines no _merge_layer_analysis: line 35 raises AttributeError.        *)
(***************************************************************************)
Layers == <<"models", "services", "controllers", "views">>

RunningLayer == [pc |-> "running", result |-> EmptyMap]

BInit ==
    \E entries \in [Files -> Entries] :
       b_run = [pc |-> "gather", project |-> entries,
                layers |-> [l \in DOMAIN Layers |-> RunningLayer],
                entities |-> <<>>, processes |-> <<>>, merged |-> 0, requests |-> 0]

\* The layer task whose turn it is.
NextLayer(l) ==
    /\ b_run # <<>>
    /\ b_run.layers[l].pc = "running"
    /\ \A k \in 1..(l - 1) : b_run.layers[k].pc # "running"

\* _analyze_layer returned (line 51).
LayerReturns(l) ==
    /\ NextLayer(l)
    /\ ~IsRaise(LayerFiles(b_run.project))
    /\ b_run' = [b_run EXCEPT !.layers[l] =
                    [pc |-> "returned", result |-> AnalyzeLayer(b_run.project)]]
    /\ UNCHANGED NotB

\* _analyze_layer raised while it listed its files (lines 44-45).
LayerRaises(l) ==
    /\ NextLayer(l)
    /\ IsRaise(LayerFiles(b_run.project))
    /\ b_run' = [b_run EXCEPT !.layers[l].pc = "raised"]
    /\ UNCHANGED NotB

\* The gather of line 28 passes the exception of a layer task on, once the
\* tasks that were ready with it have run.
LayersGatherRaises ==
    /\ b_run # <<>>
    /\ b_run.pc = "gather"
    /\ \A l \in DOMAIN Layers : b_run.layers[l].pc # "running"
    /\ \E l \in DOMAIN Layers : b_run.layers[l].pc = "raised"
    /\ b_run' = [b_run EXCEPT !.pc = "raised"]
    /\ UNCHANGED NotB

\* Every layer task returned: the loop of lines 34-35 looks the missing
\* method up for the first layer result and raises; nothing is merged and
\* line 38 is not reached.
MergeLayers ==
    /\ b_run # <<>>
    /\ b_run.pc = "gather"
    /\ \A l \in DOMAIN Layers : b_run.layers[l].pc = "returned"
    /\ b_run' = [b_run EXCEPT !.pc = "raised"]
    /\ UNCHANGED NotB

BNext ==
    \/ \E l \in DOMAIN Layers : LayerReturns(l)
    \/ \E l \in DOMAIN Layers : LayerRaises(l)
    \/ LayersGatherRaises
    \/ MergeLayers

(***************************************************************************)
(* The three levels of tasks: the chunk calls of a file and the file tasks *)
(* of a run, or the layer tasks of analyze_business_logic.                 *)
(***************************************************************************)
LevelsInit ==
    /\ (RInit /\ BOff) \/ (BInit /\ ROff)
    /\ HOff /\ MOff /\ GOff /\ XOff

\* Whether a run, or analyze_business_logic, is under way.
RunActive == r_kind # "off"
ProjectActive == b_run # <<>>

LevelsNext == (RunActive /\ RNext) \/ (ProjectActive /\ BNext)

SpecLevels == LevelsInit /\ [][LevelsNext]_vars

(***************************************************************************)
(* DependencyAnalyzer.analyze_dependencies. dependency_analyzer.py imports *)
(* Dict, Set and List from typing and annotates _get_node_id with          *)
(* Optional (line 219): the annotation is evaluated while the class body   *)
(* runs, so importing the module raises NameError. No DependencyAnalyzer   *)
(* is constructed, no graph is created and no pass starts.                 *)
(***************************************************************************)

\* What a caller holds for analyze_dependencies: components by path,
\* entities and services by name, each with its declared dependencies.
Comp(path, deps) == [name |-> path, type |-> "module", language |-> "py", dependencies |-> deps]
Ent(name, deps) == [name |-> name, attributes |-> <<"id">>, methods |-> <<>>, dependencies |-> deps]
Svc(name, deps) == [name |-> name, image |-> "img", ports |-> <<>>, dependencies |-> deps]

CodeSamples ==
    {<<>>,
     <<Comp("a.py", <<"b.py">>), Comp("b.py", <<>>)>>,
     <<Comp("a.py", <<"os">>)>>,
     <<Comp("entity:Order", <<>>), Comp("entity:User", <<>>)>>}
EntitySamples ==
    {<<>>,
     <<Ent("Order", <<"User">>), Ent("User", <<>>)>>,
     <<Ent("Order", <<"Ghost">>)>>,
     <<Ent("User", <<>>)>>}
ServiceSamples ==
    {<<>>,
     <<Svc("web", <<"db">>), Svc("db", <<>>)>>,
     <<Svc("web", <<"cache">>)>>,
     <<Svc("db", <<>>)>>}

\* No graph exists: nx.DiGraph() of line 13 has not run.
NoGraph == <<>>

\* A caller holds its inputs and is about to import the module.
GInit ==
    /\ g_in \in [code : CodeSamples, business : EntitySamples, infrastructure : ServiceSamples]
    /\ g_graph = NoGraph
    /\ g_run = "import"

\* The import statement runs the module: the class body raises NameError at
\* the def of line 219.
ImportModule ==
    /\ g_run = "import"
    /\ g_run' = "raised"
    /\ UNCHANGED <<g_in, g_graph>>
    /\ UNCHANGED NotG

GNext == ImportModule

GraphInit == GInit /\ HOff /\ MOff /\ ROff /\ XOff /\ BOff

SpecGraph == GraphInit /\ [][GNext]_vars

(***************************************************************************)
(* BusinessAnalyzer._update_with_cross_layer_analysis (lines 211-230): the *)
(* answer it is called with is applied to the entity map and the          *)
(* process map of the analyzer. An entity holds its set of dependencies, a *)
(* process its set of dependencies and its critical paths.                 *)
(***************************************************************************)
MaxRels == 1

\* The relationships an answer may list between the given names, and one
\* that lacks its target.
Rels(names) ==
    {[source |-> a, target |-> b] : a, b \in names} \cup {[source |-> "Order"]}

RelLists(names) == UNION {[1..k -> Rels(names)] : k \in 0..MaxRels}

KnownEntities ==
    {[n \in {"Order", "User"} |-> [dependencies |-> IF n = "Order" THEN {"User"} ELSE {}]],
     [n \in {"Order"} |-> [dependencies |-> {}]]}

KnownProcesses ==
    {[n \in {"Pay", "Ship"} |-> [dependencies |-> {}, critical_paths |-> <<"p1">>]],
     [n \in {"Pay"} |-> [dependencies |-> {}, critical_paths |-> <<>>]]}

CrossLayerAnswers ==
    [entity_relationships : RelLists({"Order", "User", "Ghost"}),
     process_relationships : RelLists({"Pay", "Ship", "Ghost"}),
     critical_paths : {<<>>, [n \in {"Pay"} |-> <<"p2">>], [n \in {"Ghost"} |-> <<"p2">>]}]
    \cup {EmptyMap}

AddDependencyUnchecked(known, rel) ==
    IF "source" \notin DOMAIN rel \/ "target" \notin DOMAIN rel
    THEN [map |-> known, error |-> "KeyError"]
    ELSE IF rel["source"] \in DOMAIN known
    THEN [map |-> [known EXCEPT ![rel["source"]]["dependencies"] = @ \cup {rel["target"]}],
          error |-> "none"]
    ELSE [map |-> known, error |-> "none"]

\* Lines 215-218 (and 222-225) for one relationship: source and target are
\* read, and the target joins the dependencies of the source when both are
\* keys of the map.
AddDependency(known, rel) ==
    IF "source" \notin DOMAIN rel \/ "target" \notin DOMAIN rel
    THEN [map |-> known, error |-> "KeyError"]
    ELSE IF rel["source"] \in DOMAIN known /\ rel["target"] \in DOMAIN known
    THEN [map |-> [known EXCEPT ![rel["source"]]["dependencies"] = @ \cup {rel["target"]}],
          error |-> "none"]
    ELSE [map |-> known, error |-> "none"]

RECURSIVE AddDependencies(_, _)
\* The loops of lines 214 and 221; an exception ends them.
AddDependencies(known, rels) ==
    IF rels = <<>> THEN [map |-> known, error |-> "none"]
    ELSE LET one == AddDependency(known, Head(rels))
         IN  IF one.error # "none" THEN one ELSE AddDependencies(one.map, Tail(rels))

\* Lines 228-230: the critical paths of a known process are replaced by the
\* ones the answer gives for it.
SetCriticalPaths(processes, paths) ==
    [n \in DOMAIN processes |->
        IF n \in DOMAIN paths THEN [processes[n] EXCEPT !["critical_paths"] = paths[n]]
        ELSE processes[n]]

\* The function as a whole: the entity loop, the process loop, the critical
\* paths; what an exception leaves behind stays.
UpdateWithCrossLayerAnalysis(maps, analysis) ==
    LET e == AddDependencies(maps.entities, Get(analysis, "entity_relationships", <<>>))
        q == AddDependencies(maps.processes, Get(analysis, "process_relationships", <<>>))
    IN  IF e.error # "none"
        THEN [entities |-> e.map, processes |-> maps.processes, error |-> e.error]
        ELSE IF q.error # "none"
        THEN [entities |-> e.map, processes |-> q.map, error |-> q.error]
        ELSE [entities |-> e.map,
              processes |-> SetCriticalPaths(q.map, Get(analysis, "critical_paths", <<>>)),
              error |-> "none"]

XInit ==
    /\ x_pc = "start"
    /\ x_in \in [entities : KnownEntities, processes : KnownProcesses,
                 analysis : CrossLayerAnswers]
    /\ x_out = [entities |-> x_in.entities, processes |-> x_in.processes]

\* _update_with_cross_layer_analysis is called with an answer.
CrossLayerUpdate ==
    /\ x_pc = "start"
    /\ \E r \in {UpdateWithCrossLayerAnalysis(x_out, x_in.analysis)} :
          /\ x_out' = [entities |-> r.entities, processes |-> r.processes]
          /\ x_pc' = IF r.error = "none" THEN "done" ELSE "raised"
    /\ UNCHANGED x_in
    /\ UNCHANGED NotX

CrossLayerInit == XInit /\ HOff /\ MOff /\ ROff /\ GOff /\ BOff

SpecCrossLayer == CrossLayerInit /\ [][CrossLayerUpdate]_vars

(***************************************************************************)
(* Properties of the LLM client, checked under Spec.                       *)
(***************************************************************************)
Started(t) == task[t].pc # "idle"
Looked(t, kind) == Started(t) /\ LookupKind(task[t].cached) = kind

\* C1: in every reachable state the number of external calls in flight is at
\* most batch_size, however many calls were dispatched together.
C1_InFlightAtMostBatchSize == Cardinality(InFlight) <= batch_size

\* C1 witness: every slot is taken by a call in flight while another call
\* waits for a slot.
C1_Witness ==
    /\ Cardinality(InFlight) = batch_size
    /\ \E t \in Tasks : task[t].pc = "waiting" /\ t \notin woken

\* The two tasks that called analyze_chunk for prompt p one after the other,
\* t1 first, with no other call for p.
TwiceInSequence(t1, t2, p) ==
    /\ t1 # t2
    /\ Finished(t1) /\ Finished(t2)
    /\ {t \in Tasks : Started(t) /\ task[t].prompt = p} = {t1, t2}
    /\ task[t1].seqno = 0 /\ task[t2].seqno = 1

\* C2: calling analyze_chunk twice in sequence for the same (chunk, context)
\* issues at most one external call in total, and the second call returns
\* what the first returned.
C2_TwiceIssuesOneCall ==
    \A p \in Prompts : \A t1, t2 \in Tasks :
        TwiceInSequence(t1, t2, p) =>
            /\ calls[p] <= 1
            /\ task[t2].pc = "done" /\ task[t1].pc = "done"
            /\ task[t2].result = task[t1].result

\* C3: whenever the cache holds an entry for the key of the prompt, whatever
\* result it stores (the empty mapping included), analyze_chunk returns the
\* stored result with no external call and without taking a slot.
C3_StoredEntryIsReturned ==
    \A t \in Tasks :
        (Looked(t, "value") \/ Looked(t, "falsy")) =>
            /\ task[t].pc = "done"
            /\ ~task[t].called
            /\ task[t].result = task[t].cached.val

\* C4: a failure of the external call, of the parse of its answer or of the
\* cache write makes analyze_chunk return the empty mapping; nothing raised
\* inside the try block leaves analyze_chunk, and the other tasks go on.
C4_FailureReturnsEmpty ==
    /\ \A t \in Tasks :
          task[t].failed # "none" =>
              task[t].pc = "done" /\ task[t].result = EmptyMap
    /\ \A t \in Tasks : task[t].pc = "raised" => ~task[t].called

\* C4 witness: each kind of failure has been swallowed while a sibling call
\* is still in flight.
C4_Witness ==
    \E t, u, w \in Tasks :
        /\ task[t].failed = "write" /\ task[u].failed \in {"call", "parse"}
        /\ task[t].result = EmptyMap /\ task[u].result = EmptyMap
        /\ task[w].pc = "calling"

\* C5: a corrupt or unreadable cache entry is treated as a miss: analyze_chunk
\* raises nothing and goes on to the external call.
C5_CorruptEntryIsMiss ==
    \A t \in Tasks :
        Looked(t, "corrupt") =>
            /\ task[t].pc \in {"waiting", "calling", "done"}
            /\ task[t].pc = "done" => task[t].called

\* C18: once the cache holds an entry for a key, no step changes what the
\* entry stores.
C18_EntryWrittenOnce ==
    [][\A k \in CacheKeys : cache[k].exists => cache'[k] = cache[k]]_vars

\* The call of task t ends in this step with a failure of the request or of
\* the parse of its answer.
FailsNow(t) ==
    /\ task[t].pc = "calling"
    /\ task'[t].pc = "done" /\ task'[t].failed \in {"call", "parse"}

\* Every finished call for prompt p, the one of task t aside, ended with a
\* failure of its request or parse, and at least one had when t called.
OnlyFailuresBefore(t, p) ==
    /\ Started(t) /\ task[t].prompt = p /\ task[t].seqno >= 1
    /\ \A u \in Tasks \ {t} :
          (task[u].prompt = p /\ Finished(u)) => task[u].failed \in {"call", "parse"}

\* C19: a call whose request or parse fails leaves the cache entry of its
\* key as it was, and a later call for the same prompt goes on to the
\* external call.
C19_FailureLeavesCache ==
    /\ [][\A t \in Tasks :
             FailsNow(t) => cache'[CacheKey(task[t].prompt)] = cache[CacheKey(task[t].prompt)]]_vars
    /\ [](\A t \in Tasks : \A p \in Prompts :
             OnlyFailuresBefore(t, p) =>
                 /\ ~cache[CacheKey(p)].exists \/ task[t].pc = "done"
                 /\ task[t].pc = "waiting" \/ task[t].called)

\* A call failed on its parse, the cache holds no entry for its key, and a
\* later call for the same prompt made the second request.
C19_Witness ==
    \E t, u \in Tasks : \E p \in Prompts :
        /\ task[u].prompt = p /\ task[u].failed = "parse"
        /\ OnlyFailuresBefore(t, p)
        /\ task[t].pc = "calling" /\ calls[p] = 2
        /\ ~cache[CacheKey(p)].exists

\* The slots no call holds: the counter of the semaphore.
FreeSlots == sem_value

\* The slots release handed to a waiter that has not resumed yet.
HandedOver == Cardinality(woken)

\* C20 as stated: in every state the free slots and the calls in flight add
\* up to batch_size, and with no call in flight every slot is free.
C20_SlotsBalance ==
    /\ FreeSlots + Cardinality(InFlight) = batch_size
    /\ InFlight = {} => FreeSlots = batch_size

\* C20, amended: every slot is free, held by a call in flight or handed to a
\* waiter that has not resumed yet; with no call in flight and no call
\* waiting for a slot every slot is free, whether the calls that ended
\* succeeded or failed.
C20_SlotsBalanceWithHandedOver ==
    /\ FreeSlots + Cardinality(InFlight) + HandedOver = batch_size
    /\ FreeSlots \in 0..batch_size
    /\ (InFlight = {} /\ waiters = <<>>) => FreeSlots = batch_size

\* A failed call and a successful one have ended, the slot of the one that
\* ended last went to a waiter that has not resumed, and no call is in
\* flight.
C20_Witness ==
    /\ \E t, u \in Tasks :
          /\ task[t].pc = "done" /\ task[t].failed \in {"call", "parse"}
          /\ task[u].pc = "done" /\ task[u].called /\ task[u].failed = "none"
    /\ InFlight = {} /\ HandedOver = 1 /\ FreeSlots = batch_size - 1

\* Under SpecFair every analyze_chunk call that was dispatched completes: no
\* call waits for a slot for ever.
EveryCallCompletes ==
    \A t \in Tasks : (task[t].pc # "idle") ~> (task[t].pc \in {"done", "raised"})

(***************************************************************************)
(* Properties of a run, checked under SpecRun.                             *)
(***************************************************************************)
\* The external call of the chunk failed / the chunk's call succeeded.
ChunkFailed(slot) == slot.failed # "none"
ChunkSucceeded(slot) == slot.pc = "done" /\ slot.failed = "none"

\* One chunk or more of the file failed and every other call succeeded.
SomeChunkFailed(f) ==
    LET slots == r_files[f].slots
    IN  /\ \E c \in DOMAIN slots : ChunkFailed(slots[c])
        /\ \A c \in DOMAIN slots : ChunkFailed(slots[c]) \/ ChunkSucceeded(slots[c])

\* Whether the merged arrays hold what the answer holds: the entities and
\* processes by name, the rules as they are.
HoldsAnswer(merged, answer) ==
    /\ Names(Get(answer, "entities", <<>>)) \subseteq Names(Get(merged, "entities", <<>>))
    /\ Names(Get(answer, "processes", <<>>)) \subseteq Names(Get(merged, "processes", <<>>))
    /\ Range(Get(answer, "rules", <<>>)) \subseteq Range(Get(merged, "rules", <<>>))

\* C6: when the external call of a chunk of a file fails and the calls of
\* the file's other chunks succeed, _analyze_file does not take its error
\* path: it returns the merge, which is the merge of the other chunks'
\* answers and holds the entities, processes and rules of each of them.
C6_FailedChunkKeepsOthers ==
    \A f \in Files :
        (r_files[f].pc = "done" /\ SomeChunkFailed(f)) =>
            /\ r_files[f].status = "ok"
            /\ r_files[f].result =
                   FileReturn(f, SelectSeq(r_files[f].slots, ChunkSucceeded))
            /\ \A c \in DOMAIN r_files[f].slots :
                   ChunkSucceeded(r_files[f].slots[c]) =>
                       HoldsAnswer(r_files[f].result, r_files[f].slots[c].result)

\* A file merged after one of its calls failed and another answered.
C6_Witness ==
    \E f \in Files :
        /\ r_kind = "file"
        /\ r_files[f].pc = "done" /\ r_files[f].status = "ok"
        /\ \E c, d \in DOMAIN r_files[f].slots :
              /\ ChunkFailed(r_files[f].slots[c])
              /\ ChunkSucceeded(r_files[f].slots[d])
              /\ r_files[f].slots[d].result = AnswerOf(f, d)
              /\ r_files[f].result["rules"] = AnswerOf(f, d)["rules"]

FileOk(rec) == rec.status = "ok"
FileFailed(rec) == rec.status = "failed"

\* The paths of the files whose analysis did not fail.
OkPaths == {PathOf(f) : f \in {g \in Files : FileOk(r_files[g])}}

\* analyze_project or _analyze_layer has ended, returning or raising.
RunEnded == r_kind \in {"code", "layer"} /\ r_run.pc \in {"returned", "raised"}

\* C7: a file whose reading or analysis failed yields the empty result, and
\* the run it belongs to ends by returning a result: the code analyzer one
\* component per other file, the layer the merge of its files' results.
C7_FileFailureNeverAborts ==
    /\ \A f \in Files :
          FileFailed(r_files[f]) => r_files[f].pc = "done" /\ r_files[f].result = EmptyMap
    /\ RunEnded =>
          /\ r_run.pc = "returned"
          /\ r_kind = "code" => DOMAIN r_run.out = OkPaths

\* C16: analyze_project returns, and its component map then has one entry
\* for every selected file whose analysis did not fail, keyed by the path of
\* the file, and no other entry.
C16_OneComponentPerAnalyzedFile ==
    (r_kind = "code" /\ r_run.pc # "gather") =>
        /\ r_run.pc = "returned"
        /\ DOMAIN r_run.out = OkPaths
        /\ \A f \in Files :
              FileOk(r_files[f]) => r_run.out[PathOf(f)].path = PathOf(f)

\* The analyze_chunk call for chunk c of file f is dispatched and has not
\* completed.
CallPending(f, c) ==
    c \in DOMAIN r_files[f].slots /\ r_files[f].slots[c].pc = "calling"

\* C21: under fair scheduling, with every external call returning or
\* failing, every dispatched analyze_chunk call completes and the project
\* analysis returns.
C21_AnalysisEventuallyReturns ==
    /\ \A f \in Files : \A c \in 1..MaxCalls :
          CallPending(f, c) ~> ~CallPending(f, c)
    /\ (r_kind = "code") => <>(r_run.pc = "returned")

(***************************************************************************)
(* Properties of the file-to-layer merge, checked under SpecFileMerge.     *)
(***************************************************************************)
\* The entities named n among the per-file results handed to the merge.
InputEntities(n) ==
    {e \in UNION {Range(Get(m_in[f], "entities", <<>>)) : f \in DOMAIN m_in} :
        e["name"] = n}

InputNames ==
    {e["name"] : e \in UNION {Range(Get(m_in[f], "entities", <<>>)) : f \in DOMAIN m_in}}

\* The names a field of an entity holds; a lacking field holds none.
FieldNames(e, k) == Elems(Get(e, k, List(<<>>)))

\* C8: a merge step handed a partial result that lacks an expected field
\* treats the field as empty and completes; it never raises for the lack.
C8_MissingFieldNeverRaises ==
    m_pc = "merged" => m_out # Raise("KeyError")

\* C10: after the file-to-layer merge of any list of per-file results the
\* merged entity map has exactly one entry per distinct entity name, whose
\* attribute and method sets are the unions over the same-named entities of
\* the inputs. Stated for per-file results that hold entities only, so that
\* nothing but the entity merge decides it.
C10_EntityUnion ==
    (m_pc = "merged" /\ \A f \in DOMAIN m_in : Get(m_in[f], "processes", <<>>) = <<>>) =>
        IF IsRaise(m_out) THEN FALSE
        ELSE /\ DOMAIN m_out["entities"] = InputNames
             /\ \A n \in InputNames : \A k \in {"attributes", "methods"} :
                   FieldNames(m_out["entities"][n], k) =
                       UNION {FieldNames(e, k) : e \in InputEntities(n)}

(***************************************************************************)
(* Properties of the dependency graph, checked under SpecGraph.            *)
(***************************************************************************)
\* The names of the given items of a kind.
ItemNames(items) == {items[i].name : i \in DOMAIN items}

\* The nodes of the given components, entities and services: the path of a
\* component, the name of an entity or of a service behind its prefix.
GivenNodes ==
    ItemNames(g_in.code)
        \cup {"entity:" \o n : n \in ItemNames(g_in.business)}
        \cup {"service:" \o n : n \in ItemNames(g_in.infrastructure)}

\* The caller of analyze_dependencies has its answer: a graph or an error.
GraphCallEnded == g_run \in {"returned", "raised"}

\* C9: analyze_dependencies returns a graph in which every node is the node
\* of a given component, entity or service and every edge joins two of them.
C9_OnlyGivenNodes ==
    GraphCallEnded =>
        /\ g_run = "returned"
        /\ DOMAIN g_graph.nodes \subseteq GivenNodes
        /\ \A e \in DOMAIN g_graph.edges : e[1] \in GivenNodes /\ e[2] \in GivenNodes

(***************************************************************************)
(* Properties of the chunk-to-file merge, checked under SpecChunkMerge.    *)
(***************************************************************************)
\* The processes named n among the partial results handed to the merge.
InputProcesses(n) ==
    {q \in UNION {Range(Get(m_in[i], "processes", <<>>)) : i \in DOMAIN m_in} :
        q["name"] = n}

InputProcessNames ==
    {q["name"] : q \in UNION {Range(Get(m_in[i], "processes", <<>>)) : i \in DOMAIN m_in}}

\* The records of name n in a list of records.
Named(list, n) == {i \in DOMAIN list : list[i]["name"] = n}

\* C11: when chunks of one file report an entity or a process of the same
\* name, the file-level result holds one record of that name whose
\* attributes and methods are the union over all occurrences and whose steps
\* include the steps of all occurrences.
C11_ChunkMergeUnion ==
    m_pc = "file" =>
        /\ \A n \in InputNames :
              /\ Cardinality(Named(m_out["entities"], n)) = 1
              /\ \A i \in Named(m_out["entities"], n) : \A k \in {"attributes", "methods"} :
                    FieldNames(m_out["entities"][i], k) =
                        UNION {FieldNames(e, k) : e \in InputEntities(n)}
        /\ \A n \in InputProcessNames :
              /\ Cardinality(Named(m_out["processes"], n)) = 1
              /\ \A i \in Named(m_out["processes"], n) : \A q \in InputProcesses(n) :
                    Range(Get(q, "steps", <<>>)) \subseteq
                        Range(Get(m_out["processes"][i], "steps", <<>>))

\* The files whose per-file result holds an entity named n.
FilesWith(n) ==
    {f \in DOMAIN m_in : Named(Get(m_in[f], "entities", <<>>), n) # {}}

\* The rules of the entity named n in a per-file result, none when it holds
\* no such entity.
RulesIn(analysis, n) ==
    LET es == Get(analysis, "entities", <<>>)
    IN  IF Named(es, n) = {} THEN <<>>
        ELSE Get(es[CHOOSE i \in Named(es, n) : TRUE], "rules", <<>>)

RECURSIVE RulesUpTo(_, _)
\* The rules of the occurrences of n in the first f per-file results, in order.
RulesUpTo(n, f) == IF f = 0 THEN <<>> ELSE RulesUpTo(n, f - 1) \o RulesIn(m_in[f], n)

\* C12: after the file-to-layer merge each merged entity's source_files is
\* the set of the paths of the files whose result held an entity of its
\* name, and its rules are the rules of those occurrences in file order.
\* Stated for per-file results that hold entities only.
C12_SourceFilesAndRules ==
    (m_pc = "merged" /\ \A f \in DOMAIN m_in : Get(m_in[f], "processes", <<>>) = <<>>) =>
        IF IsRaise(m_out) THEN FALSE
        ELSE \A n \in InputNames :
                /\ n \in DOMAIN m_out["entities"]
                /\ m_out["entities"][n]["source_files"] =
                       PySet({m_in[f]["source_file"] : f \in FilesWith(n)})
                /\ Get(m_out["entities"][n], "rules", <<>>) = RulesUpTo(n, Len(m_in))

(***************************************************************************)
(* Properties of _merge_process, checked under SpecProcessMerge.           *)
(***************************************************************************)
\* Both processes spell their entities as a JSON object, so that the update
\* of entities_involved completes.
EntitiesAsObjects ==
    \A i \in DOMAIN m_in : "dict" \in DOMAIN m_in[i]["entities_involved"]

\* The steps of s that are not among `have`, in the order of s.
StepsNotIn(s, have) == SelectSeq(s, LAMBDA x : x \notin have)

\* C13: merging process B into a same-named process A whose steps have no
\* duplicates leaves A's steps in their order, followed by the steps of B
\* that A did not have, in B's order, and the result holds no step twice.
C13_StepsFirstSeenNoDuplicates ==
    (m_pc = "process" /\ EntitiesAsObjects) =>
        IF IsRaise(m_out) THEN FALSE
        ELSE /\ m_out["steps"] =
                    m_in[1]["steps"] \o
                    StepsNotIn(Get(m_in[2], "steps", <<>>), Range(m_in[1]["steps"]))
             /\ NoDuplicates(m_out["steps"])

(***************************************************************************)
(* Properties of both merge levels, checked under SpecBothMerges.          *)
(***************************************************************************)
\* The orders in which the partial results s can be handed to a merge.
Orders(s) ==
    {[i \in DOMAIN s |-> s[q[i]]] :
        q \in {r \in [DOMAIN s -> DOMAIN s] : \A i, j \in DOMAIN s : r[i] = r[j] => i = j}}

\* The merge of the level the state is at, applied to the partial results s.
MergeAtLevel(s) ==
    IF m_pc \in {"chunks", "file"} THEN MergeChunkAnalyses(s, PathOf(1))
    ELSE MergeFileAnalyses(s)

\* What a merged result holds for every name: the attributes and methods of
\* an entity, the description and the set of steps of a process. An
\* exception stands for itself.
Outcome(out) ==
    IF IsRaise(out) THEN out
    ELSE [entities |->
            {[name |-> e["name"],
              attributes |-> FieldNames(e, "attributes"),
              methods |-> FieldNames(e, "methods")] : e \in Range(out["entities"])},
          processes |->
            {[name |-> q["name"],
              description |-> Get(q, "description", ""),
              steps |-> Range(Get(q, "steps", <<>>))] : q \in Range(out["processes"])}]

\* C14: merging the same partial results in any order gives the same
\* entities and processes, with the same attributes, methods, descriptions
\* and sets of steps for every name, at both merge levels.
C14_MergeOrderInsensitive ==
    m_pc \in {"file", "merged"} =>
        \A s \in Orders(m_in) : Outcome(MergeAtLevel(s)) = Outcome(m_out)

(***************************************************************************)
(* Properties of the business cross-layer pass, checked under              *)
(* SpecCrossLayer.                                                         *)
(***************************************************************************)
\* The dependencies the pass added to the entry s of a map.
AddedTo(before, after, s) == after[s]["dependencies"] \ before[s]["dependencies"]

\* Whether the list rels names the relationship from s to t.
Names2(rels, s, t) ==
    \E i \in DOMAIN rels :
        /\ {"source", "target"} \subseteq DOMAIN rels[i]
        /\ rels[i]["source"] = s /\ rels[i]["target"] = t

\* C15: the cross-layer pass leaves the key sets of the entity map and of
\* the process map unchanged, and a dependency it adds from S to T is one
\* its answer names between two keys of the map.
C15_CrossLayerOnlyKnown ==
    x_pc \in {"done", "raised"} =>
        /\ DOMAIN x_out.entities = DOMAIN x_in.entities
        /\ DOMAIN x_out.processes = DOMAIN x_in.processes
        /\ \A s \in DOMAIN x_in.entities : \A t \in AddedTo(x_in.entities, x_out.entities, s) :
              /\ t \in DOMAIN x_in.entities
              /\ Names2(Get(x_in.analysis, "entity_relationships", <<>>), s, t)
        /\ \A s \in DOMAIN x_in.processes : \A t \in AddedTo(x_in.processes, x_out.processes, s) :
              /\ t \in DOMAIN x_in.processes
              /\ Names2(Get(x_in.analysis, "process_relationships", <<>>), s, t)

\* The pass added User to the dependencies of Order and dropped a process
\* relationship to an unknown process.
C15_Witness ==
    /\ x_pc = "done"
    /\ \E s \in DOMAIN x_in.entities : AddedTo(x_in.entities, x_out.entities, s) # {}
    /\ Names2(Get(x_in.analysis, "process_relationships", <<>>), "Pay", "Ghost")
    /\ x_out.processes["Pay"]["dependencies"] = {}

(***************************************************************************)
(* Properties of the chunker and its callers, checked under SpecChunker.   *)
(***************************************************************************)
\* C17: every chunk is estimated at maxTokens at most, there are chunks
\* exactly when the content is not empty, and an empty content makes no
\* analyze_chunk call.
C17_ChunksBounded ==
    m_pc = "dispatched" =>
        /\ \A c \in DOMAIN m_out.chunks :
              EstimatedTokens(m_out.chunks[c]) <= m_in.max_tokens
        /\ m_out.chunks # <<>> <=> m_in.content # <<>>
        /\ m_in.content = <<>> => m_out.calls = <<>>

\* A content with a line above maxTokens was cut into several chunks, each
\* sent in its own call.
C17_Witness ==
    /\ m_pc = "dispatched"
    /\ \E i \in DOMAIN m_in.content : m_in.content[i] > m_in.max_tokens
    /\ Len(m_out.chunks) > 1
    /\ Len(m_out.calls) = Len(m_out.chunks)

(***************************************************************************)
(* Properties of the three levels of tasks, checked under SpecLevels.      *)
(***************************************************************************)
\* The chunk calls that exist before and after the step and were changed
\* by it.
ChangedCalls ==
    {fc \in Files \X (1..MaxCalls) :
        /\ fc[2] \in DOMAIN r_files[fc[1]].slots
        /\ fc[2] \in DOMAIN r_files'[fc[1]].slots
        /\ r_files'[fc[1]].slots[fc[2]] # r_files[fc[1]].slots[fc[2]]}

\* The merges started behind their barriers: a file was merged when all its
\* chunk calls were done, the run went past its gather when all its file
\* tasks were done, the layers were merged when all layer tasks had returned.
MergedBehindBarrier ==
    /\ RunActive =>
          /\ \A f \in Files :
                r_files[f].status = "ok" =>
                    \A c \in DOMAIN r_files[f].slots : r_files[f].slots[c].pc = "done"
          /\ (r_kind = "code" /\ r_run.pc # "gather") =>
                \A f \in Files : r_files[f].pc \in {"done", "none"}
    /\ (/\ ProjectActive
        /\ \/ b_run.pc # "gather" \/ b_run.merged > 0
           \/ b_run.entities # <<>> \/ b_run.processes # <<>>) =>
          \A l \in DOMAIN Layers : b_run.layers[l].pc # "running"

\* A step before a barrier leaves the merged state of the level alone and
\* changes the result of one task at most.
NoWriteBeforeBarrier ==
    /\ RunActive =>
          /\ (r_run.pc = "gather" /\ r_run'.pc = "gather") => r_run' = r_run
          /\ \A f \in Files :
                (r_files[f].pc = "chunks" /\ r_files'[f].pc = "chunks") =>
                    r_files'[f].result = r_files[f].result
          /\ Cardinality(ChangedCalls) <= 1
          /\ Cardinality({f \in Files : r_files'[f] # r_files[f]}) <= 1
    /\ ProjectActive =>
          /\ (b_run.pc = "gather" /\ b_run'.pc = "gather") =>
                /\ b_run'.entities = b_run.entities
                /\ b_run'.processes = b_run.processes
          /\ Cardinality({l \in DOMAIN Layers : b_run'.layers[l] # b_run.layers[l]}) <= 1

\* C22: at each level the merge starts only after every task dispatched for
\* the level has completed, and before that no task writes to the merged
\* state or to the result of another task.
C22_MergeAfterBarrier == []MergedBehindBarrier /\ [][NoWriteBeforeBarrier]_vars

\* Two files were merged, each from its own chunk calls, three calls or
\* more between them.
C22_Witness ==
    /\ r_kind = "file"
    /\ \A f \in Files : FileOk(r_files[f]) /\ r_files[f].slots # <<>>
    /\ \E f \in Files : Len(r_files[f].slots) >= 2

(***************************************************************************)
(* Properties of a gather and its merge, checked under SpecArrival.        *)
(***************************************************************************)
\* The orders in which n tasks can complete.
ArrivalOrders(n) ==
    {o \in [1..n -> 1..n] : \A i, j \in 1..n : o[i] = o[j] => i = j}

\* C23: with the answer of every call fixed, the merged result of a file is
\* the one every other order of completion gives.
C23_ArrivalOrderIrrelevant ==
    m_pc = "gathered" =>
        \A o \in ArrivalOrders(Len(m_in.tasks)) :
            MergeOf(GatherResults(m_in.tasks, o)) = m_out.result

\* The last task completed first, and merging the results in the order of
\* completion would have given another result.
C23_Witness ==
    /\ m_pc = "gathered"
    /\ Len(m_in.tasks) >= 2
    /\ m_out.arrived[1] = Len(m_in.tasks)
    /\ MergeOf(GatherResultsAsCompleted(m_in.tasks, m_out.arrived)) # m_out.result

\* C24: the three passes end with one final graph, the same for every order
\* their answers come in, and analyze_dependencies hands it on: its caller
\* never ends without a graph.
C24_PassesCommute == g_run \notin {"off", "import"} => g_graph # NoGraph

\* C25: the relationship pass of analyze_project completes, and every target
\* in the relationships of a component is then the path of a known component.
C25_RelationshipsBetweenKnown ==
    (r_kind = "code" /\ \A f \in Files : r_files[f].pc \in {"done", "none"}
                    /\ r_run.pc # "gather") =>
        /\ ~IsRaise(r_run.out)
        /\ \A p \in DOMAIN r_run.out :
              DOMAIN r_run.out[p].relationships \subseteq DOMAIN r_run.out

\* C26: after the cross-layer pass every entity and every process still has
\* the dependencies it had before, and the critical paths of a process are
\* the ones it had before followed by the ones the answer gives for it.
C26_CrossLayerAdditive ==
    x_pc \in {"done", "raised"} =>
        /\ \A n \in DOMAIN x_in.entities :
              x_in.entities[n]["dependencies"] \subseteq x_out.entities[n]["dependencies"]
        /\ \A n \in DOMAIN x_in.processes :
              /\ x_in.processes[n]["dependencies"] \subseteq x_out.processes[n]["dependencies"]
              /\ \E added \in {<<>>, Get(Get(x_in.analysis, "critical_paths", <<>>), n, <<>>)} :
                    x_out.processes[n]["critical_paths"] =
                        x_in.processes[n]["critical_paths"] \o added

RECURSIVE ChunkListsUpTo(_, _)
\* The lists the first n chunk analyses hold under `key`, one after the other.
ChunkListsUpTo(key, n) ==
    IF n = 0 THEN <<>> ELSE ChunkListsUpTo(key, n - 1) \o Get(m_in[n], key, <<>>)

\* C27: the relationships of the merged file result are the relationships of
\* the chunk analyses one after the other in chunk order, each list once, and
\* so are its rules, whatever entities and processes the chunks hold.
C27_ListsConcatenated ==
    m_pc = "file" =>
        /\ m_out["relationships"] = ChunkListsUpTo("relationships", Len(m_in))
        /\ m_out["rules"] = ChunkListsUpTo("rules", Len(m_in))

\* C28: a merge of process B into a same-named process A that completes
\* leaves B's description when it is strictly longer than A's, and A's
\* description otherwise, also when the two have the same length.
C28_LongerDescriptionKept ==
    (m_pc = "process" /\ ~IsRaise(m_out)) =>
        m_out["description"] =
            IF Len(Get(m_in[2], "description", "")) > Len(m_in[1]["description"])
            THEN m_in[2]["description"]
            ELSE m_in[1]["description"]

\* A completed merge that took the longer description of B, or one that kept
\* A's description against a different one of the same length.
C28_Witness ==
    /\ m_pc = "process" /\ ~IsRaise(m_out)
    /\ "description" \in DOMAIN m_in[2]
    /\ m_in[2]["description"] # m_in[1]["description"]
    /\ \/ m_out["description"] = "pay an order" /\ m_in[1]["description"] = "pay"
       \/ m_in[2]["description"] = "buy" /\ m_out["description"] = "pay"

\* The nodes of the returned graph that have a type.
TypedNodes == {n \in DOMAIN g_graph.nodes : "type" \in DOMAIN g_graph.nodes[n]}

\* C29: the graph analyze_dependencies ends with has as many nodes with a
\* type as there are components, entities and services.
C29_NodesOfOneOrigin ==
    GraphCallEnded =>
        /\ g_graph # NoGraph
        /\ Cardinality(TypedNodes) =
               Len(g_in.code) + Len(g_in.business) + Len(g_in.infrastructure)

\* C30: a project analysis that has ended has made its relationship request
\* once, after every file task (every layer task) had ended.
C30_RequestAfterEveryFile ==
    /\ (RunActive /\ r_kind = "code" /\ r_run.pc # "gather") =>
          /\ \A f \in Files : r_files[f].pc \in {"done", "none"}
          /\ r_run.requests = 1
    /\ (ProjectActive /\ b_run.pc # "gather") =>
          /\ \A l \in DOMAIN Layers : b_run.layers[l].pc # "running"
          /\ b_run.requests = 1

\* Tasks t1 and t2 called analyze_chunk for the same prompt before any call
\* for it had finished, and both found no cache entry for its key.
ConcurrentMisses(t1, t2) ==
    /\ t1 # t2
    /\ Looked(t1, "absent") /\ Looked(t2, "absent")
    /\ task[t1].prompt = task[t2].prompt
    /\ task[t1].seqno = 0 /\ task[t2].seqno = 0

\* C31: of two analyze_chunk calls dispatched together for the same prompt
\* against a cache without an entry for it, at most one makes the external
\* call, and both return the same result.
C31_ConcurrentMissesShareOneCall ==
    \A t1, t2 \in Tasks :
        ConcurrentMisses(t1, t2) =>
            /\ ~(task[t1].called /\ task[t2].called)
            /\ (task[t1].pc = "done" /\ task[t2].pc = "done") =>
                   task[t1].result = task[t2].result

====
